---- MODULE Spec2Model ----
(***************************************************************************)
(* Brush stroke engine of rx (src/brush.rs): the mode set, the stroke      *)
(* lifecycle (start_drawing / draw / stop_drawing / update), the Bresenham *)
(* line rasterizer and the pixel-perfect corner filter.                    *)
(***************************************************************************)
EXTENDS Integers, Sequences, FiniteSets, TLC

VARIABLES size, state, stroke, color, modes, curr, prev,
          call, ret, trans, panicked, pre

\* the fields of Brush
fields == <<size, state, stroke, color, modes, curr, prev>>
\* what the last call was, what it returned, the values self.state took
\* during it, whether it panicked, and the mode set it started from
obs == <<call, ret, trans, panicked, pre>>
vars == <<size, state, stroke, color, modes, curr, prev, call, ret, trans, panicked, pre>>

----------------------------------------------------------------------------
\* Bounds of the model

\* cursor positions are the first MaxPoint + 1 pixels, in row order, of a frame
MaxPoint == 3
\* draw is not called any more once the stroke holds more than MaxStroke points
MaxStroke == 2
\* endpoints of the line rasterizer's own check: -MaxLineCoord..MaxLineCoord
MaxLineCoord == 2
\* iterations of the Bresenham loop that are followed before giving up
MaxLineSteps == 12
\* inputs of the corner filter's own check: up to MaxFilterLen points
MaxFilterLen == 4
\* ... with coordinates in 0..MaxFilterCoord
MaxFilterCoord == 1

----------------------------------------------------------------------------
\* Values

Pt(px, py) == [x |-> px, y |-> py]

\* Option<u32>::None of BrushMode::Line
None == -1
\* the snap angles (degrees) the model uses for Line(Some(_))
SnapAngles == {90, 180}

\* enum BrushMode; the derived Ord is variant order, then the snap (None first)
Mode(k) == [kind |-> k, snap |-> None]
Line(s) == [kind |-> "Line", snap |-> s]
Erase == Mode("Erase")
Multi == Mode("Multi")
Perfect == Mode("Perfect")
XSym == Mode("XSym")
YSym == Mode("YSym")
XRay == Mode("XRay")
BrushMode == {Erase, Multi, Perfect, XSym, YSym, XRay} \cup {Line(s) : s \in {None} \cup SnapAngles}

\* ViewExtent { fw, fh, nframes }
Extent(w, h, n) == [fw |-> w, fh |-> h, nframes |-> n]
NoExtent == Extent(0, 0, 0)

\* enum BrushState
NotDrawing == [tag |-> "NotDrawing", extent |-> NoExtent]
DrawStarted(e) == [tag |-> "DrawStarted", extent |-> e]
Drawing(e) == [tag |-> "Drawing", extent |-> e]
DrawEnded(e) == [tag |-> "DrawEnded", extent |-> e]

\* Inputs of the calls: the view is a strip of two frames, FrameW pixels wide
FrameW == 2
Points == {Pt(i % FrameW, i \div FrameW) : i \in 0..MaxPoint}
Colors == {"WHITE"}
Extents == {Extent(FrameW, 2, 2)}
\* the unit steps a snapped line can take (multiples of 90 degrees)
Units == {Pt(1, 0), Pt(0, 1), Pt(-1, 0), Pt(0, -1)}

Abs(n) == IF n < 0 THEN -n ELSE n

----------------------------------------------------------------------------
\* Brush::line: Bresenham's line algorithm, appending to canvas.
\* The loop is followed for at most MaxLineSteps iterations; halted tells
\* whether it reached its break.

RECURSIVE lineLoop(_, _, _, _, _, _, _, _, _)
lineLoop(p0, p1, dx, dy, sx, sy, err1, canvas, fuel) ==
    LET pushed == Append(canvas, p0)
        err2 == err1
        stepx == err2 > -dx
        stepy == err2 < dy
        e1 == IF stepx THEN err1 - dy ELSE err1
        e2 == IF stepy THEN e1 + dx ELSE e1
        q == Pt(IF stepx THEN p0.x + sx ELSE p0.x, IF stepy THEN p0.y + sy ELSE p0.y)
    IN  IF p0 = p1 THEN [canvas |-> pushed, halted |-> TRUE]
        ELSE IF fuel = 0 THEN [canvas |-> pushed, halted |-> FALSE]
        ELSE lineLoop(q, p1, dx, dy, sx, sy, e2, pushed, fuel - 1)

\* line stepping y upwards only
lineRun_nosy(p0, p1, canvas) ==
    LET dx == Abs(p1.x - p0.x)
        dy == Abs(p1.y - p0.y)
        sx == IF p0.x < p1.x THEN 1 ELSE -1
        err1 == IF dx > dy THEN dx \div 2 ELSE -(dy \div 2)
    IN  lineLoop(p0, p1, dx, dy, sx, 1, err1, canvas, MaxLineSteps)

\* line stepping x rightwards only
lineRun_nosx(p0, p1, canvas) ==
    LET dx == Abs(p1.x - p0.x)
        dy == Abs(p1.y - p0.y)
        sy == IF p0.y < p1.y THEN 1 ELSE -1
        err1 == IF dx > dy THEN dx \div 2 ELSE -(dy \div 2)
    IN  lineLoop(p0, p1, dx, dy, 1, sy, err1, canvas, MaxLineSteps)

\* line that clears the canvas first
lineRun_clear(p0, p1, canvas) ==
    LET dx == Abs(p1.x - p0.x)
        dy == Abs(p1.y - p0.y)
        sx == IF p0.x < p1.x THEN 1 ELSE -1
        sy == IF p0.y < p1.y THEN 1 ELSE -1
        err1 == IF dx > dy THEN dx \div 2 ELSE -(dy \div 2)
    IN  lineLoop(p0, p1, dx, dy, sx, sy, err1, <<>>, MaxLineSteps)

lineRun(p0, p1, canvas) ==
    LET dx == Abs(p1.x - p0.x)
        dy == Abs(p1.y - p0.y)
        sx == IF p0.x < p1.x THEN 1 ELSE -1
        sy == IF p0.y < p1.y THEN 1 ELSE -1
        \* i32 division truncates toward zero
        err1 == IF dx > dy THEN dx \div 2 ELSE -(dy \div 2)
    IN  lineLoop(p0, p1, dx, dy, sx, sy, err1, canvas, MaxLineSteps)

\* line into a fresh canvas, dropping what the canvas held
line_fresh(p0, p1, canvas) == lineRun(p0, p1, <<>>).canvas

line(p0, p1, canvas) == lineRun(p0, p1, canvas).canvas

----------------------------------------------------------------------------
\* Vec::dedup: removes consecutive repeated elements

dedup(s) ==
    LET F[i \in 0..Len(s)] ==
            IF i = 0 THEN <<>>
            ELSE IF i > 1 /\ s[i] = s[i - 1] THEN F[i - 1]
            ELSE Append(F[i - 1], s[i])
    IN  F[Len(s)]

----------------------------------------------------------------------------
\* Brush::filter: removes 'L' shapes from a stroke

isCorner(p, c, n) == (p.y = c.y /\ n.x = c.x) \/ (p.x = c.x /\ n.y = c.y)

\* the loop over stroke.windows(3); i is the index of the next window
RECURSIVE filterLoop(_, _, _)
filterLoop(s, i, filtered) ==
    IF i + 2 > Len(s) THEN filtered
    ELSE IF isCorner(s[i], s[i + 1], s[i + 2])
         THEN filterLoop(s, i + 2, Append(filtered, s[i + 2]))
         ELSE filterLoop(s, i + 1, Append(filtered, s[i + 1]))

\* filter without the final extend of the last point
filter_nolast(s) == filterLoop(s, 1, IF s = <<>> THEN <<>> ELSE <<s[1]>>)

\* filter without the initial extend of the first point
filter_nofirst(s) == filterLoop(s, 1, <<>>) \o (IF s = <<>> THEN <<>> ELSE <<s[Len(s)]>>)

filter(s) ==
    LET first == IF s = <<>> THEN <<>> ELSE <<s[1]>>
        last == IF s = <<>> THEN <<>> ELSE <<s[Len(s)]>>
    IN  filterLoop(s, 1, first) \o last

----------------------------------------------------------------------------
\* The mode set. A method takes the brush as the record self and gives the
\* brush it leaves (and, where it returns a value, [self, ret]).

is_set(self, m) == m \in self.modes

\* the first Line variant in the BTreeSet's order, or NoMode
NoMode == Mode("none")
line_mode(self) ==
    LET lines == {m \in self.modes : m.kind = "Line"}
    IN  IF lines = {} THEN NoMode
        ELSE CHOOSE m \in lines : \A o \in lines : m.snap <= o.snap

\* unset comparing by equality only
unset_exact(self, m) == [self |-> [self EXCEPT !.modes = @ \ {m}], ret |-> m \in self.modes]

unset(self, m) ==
    LET lm == line_mode(self)
        gone == IF lm # NoMode /\ m.kind = "Line" THEN lm ELSE m
    IN  [self |-> [self EXCEPT !.modes = @ \ {gone}], ret |-> gone \in self.modes]

\* set without the eviction of the active line sub-mode
set_noevict(self, m) == [self |-> [self EXCEPT !.modes = @ \cup {m}], ret |-> m \notin self.modes]

set(self, m) ==
    LET lm == line_mode(self)
        s1 == IF m.kind = "Line" /\ lm # NoMode THEN unset(self, lm).self ELSE self
    IN  [self |-> [s1 EXCEPT !.modes = @ \cup {m}], ret |-> m \notin s1.modes]

toggle(self, m) == IF is_set(self, m) THEN unset(self, m).self ELSE set(self, m).self

reset(self) == [self EXCEPT !.modes = {}]

----------------------------------------------------------------------------
\* The stroke lifecycle

\* self.state = s, recorded in trans
become(self, s) == [self EXCEPT !.state = s, !.trans = Append(@, s.tag)]

\* update that leaves the stroke in place
update_keep(self) == IF self.state.tag = "DrawEnded" THEN become(self, NotDrawing) ELSE self

\* update that clears the stroke in every state
update_always(self) ==
    IF self.state.tag = "DrawEnded"
    THEN [become(self, NotDrawing) EXCEPT !.stroke = <<>>]
    ELSE [self EXCEPT !.stroke = <<>>]

update(self) ==
    IF self.state.tag = "DrawEnded"
    THEN [become(self, NotDrawing) EXCEPT !.stroke = <<>>]
    ELSE self

\* round(sqrt(n)) for a natural n
RoundSqrt(n) == CHOOSE k \in 0..n : 4 * n < (2 * k + 1) * (2 * k + 1) /\ (k = 0 \/ (2 * k - 1) * (2 * k - 1) <= 4 * n)

\* The end of a snapped line: start + dist * (cos, sin) of the angle rounded
\* to a multiple of snap degrees, rounded to pixels. For the multiples of 90
\* and 180 degrees that is dist pixels along a unit step u; which one is
\* decided by util::vector_angle.
SnapDirs(snap) == IF snap = 180 THEN {Pt(1, 0), Pt(-1, 0)} ELSE Units
snapEnd(start, c, u) ==
    LET d == RoundSqrt((c.x - start.x) * (c.x - start.x) + (c.y - start.y) * (c.y - start.y))
    IN  Pt(start.x + d * u.x, start.y + d * u.y)

draw(self, p, u) ==
    LET prev1 == IF self.state.tag = "DrawStarted" THEN p ELSE self.curr
        curr1 == p
        lm == line_mode(self)
        start == IF self.stroke = <<>> THEN p ELSE self.stroke[1]
        end == IF lm.snap = None THEN curr1 ELSE snapEnd(start, curr1, u)
        stroke1 == IF lm # NoMode
                   THEN line(start, end, <<>>)
                   ELSE dedup(line(prev1, curr1, self.stroke))
        stroke2 == IF is_set(self, Perfect) THEN filter(stroke1) ELSE stroke1
        s1 == [self EXCEPT !.prev = prev1, !.curr = curr1, !.stroke = stroke2]
    IN  CASE self.state.tag = "Drawing" -> s1
          [] self.state.tag = "DrawStarted" -> become(s1, Drawing(self.state.extent))
          [] OTHER -> [s1 EXCEPT !.panicked = TRUE]

start_drawing(self, p, c, extent, u) ==
    LET s1 == become(self, DrawStarted(extent))
        s2 == [s1 EXCEPT !.color = c, !.stroke = <<>>]
    IN  draw(s2, p, u)

\* stop_drawing that ignores a call out of order
stop_drawing_silent(self) ==
    IF self.state.tag \in {"DrawStarted", "Drawing"}
    THEN become(self, DrawEnded(self.state.extent))
    ELSE self

\* stop_drawing that takes DrawStarted only
stop_drawing_strict(self) ==
    IF self.state.tag = "DrawStarted"
    THEN become(self, DrawEnded(self.state.extent))
    ELSE [self EXCEPT !.panicked = TRUE]

stop_drawing(self) ==
    IF self.state.tag \in {"DrawStarted", "Drawing"}
    THEN become(self, DrawEnded(self.state.extent))
    ELSE [self EXCEPT !.panicked = TRUE]

is_drawing(self) == self.state # NotDrawing

----------------------------------------------------------------------------
\* The brush as a state machine: one action per call

\* the brush at the start of a call
Self ==
    [size |-> size, state |-> state, stroke |-> stroke, color |-> color,
     modes |-> modes, curr |-> curr, prev |-> prev,
     trans |-> <<state.tag>>, panicked |-> FALSE]

\* the brush a call leaves, and what is observed of the call
Leave(s, c, r) ==
    /\ size' = s.size
    /\ state' = s.state
    /\ stroke' = s.stroke
    /\ color' = s.color
    /\ modes' = s.modes
    /\ curr' = s.curr
    /\ prev' = s.prev
    /\ trans' = s.trans
    /\ panicked' = s.panicked
    /\ call' = c
    /\ ret' = r
    /\ pre' = modes

NoCall == [op |-> "none"]
NoRet == "unit"

\* Brush::default()
Default ==
    /\ size = 1
    /\ state = NotDrawing
    /\ stroke = <<>>
    /\ color = "TRANSPARENT"
    /\ modes = {}
    /\ curr = Pt(0, 0)
    /\ prev = Pt(0, 0)

Init ==
    /\ Default
    /\ call = NoCall
    /\ ret = NoRet
    /\ trans = <<"NotDrawing">>
    /\ panicked = FALSE
    /\ pre = {}

Set(m) ==
    /\ ~panicked
    /\ LET r == set(Self, m) IN Leave(r.self, [op |-> "set", m |-> m], r.ret)

Unset(m) ==
    /\ ~panicked
    /\ LET r == unset(Self, m) IN Leave(r.self, [op |-> "unset", m |-> m], r.ret)

Toggle(m) ==
    /\ ~panicked
    /\ Leave(toggle(Self, m), [op |-> "toggle", m |-> m], NoRet)

Reset ==
    /\ ~panicked
    /\ Leave(reset(Self), [op |-> "reset"], NoRet)

Update ==
    /\ ~panicked
    /\ Leave(update(Self), [op |-> "update"], NoRet)

\* the unit steps util::vector_angle can decide on for the call
Dirs(self) ==
    LET lm == line_mode(self)
    IN  IF lm # NoMode /\ lm.snap # None THEN SnapDirs(lm.snap) ELSE {Pt(1, 0)}

StartDrawing(p, c, e) ==
    /\ ~panicked
    /\ \E u \in Dirs(Self) :
          Leave(start_drawing(Self, p, c, e, u), [op |-> "start_drawing", p |-> p], NoRet)

Draw(p) ==
    /\ ~panicked
    /\ Len(stroke) <= MaxStroke
    /\ \E u \in Dirs(Self) :
          Leave(draw(Self, p, u), [op |-> "draw", p |-> p], NoRet)

StopDrawing ==
    /\ ~panicked
    /\ Leave(stop_drawing(Self), [op |-> "stop_drawing"], NoRet)

\* the modes that decide how draw builds the stroke
StrokeModes == {Perfect, Line(None), Line(90)}

Next ==
    \/ \E m \in StrokeModes : Set(m)
    \/ \E m \in StrokeModes : Unset(m)
    \/ \E m \in StrokeModes : Toggle(m)
    \/ Reset
    \/ Update
    \/ \E p \in Points, c \in Colors, e \in Extents : StartDrawing(p, c, e)
    \/ \E p \in Points : Draw(p)
    \/ StopDrawing

Spec == Init /\ [][Next]_vars

\* The mode set alone, over every mode
NextModes ==
    \/ \E m \in BrushMode : Set(m)
    \/ \E m \in BrushMode : Unset(m)
    \/ \E m \in BrushMode : Toggle(m)
    \/ Reset

SpecModes == Init /\ [][NextModes]_vars

----------------------------------------------------------------------------
\* The rasterizer and the corner filter on their own: the initial state holds
\* the arguments of one call, the action makes the call.

Pending == [done |-> FALSE]

Idle ==
    /\ Default
    /\ trans = <<"NotDrawing">>
    /\ panicked = FALSE
    /\ pre = {}

LineCoords == (-MaxLineCoord)..MaxLineCoord
LinePoints == {Pt(px, py) : px \in LineCoords, py \in LineCoords}
\* what the canvas holds before the call
Canvases == {<<>>, <<Pt(0, 0), Pt(1, 1)>>}

InitLine ==
    /\ Idle
    /\ call \in {[op |-> "line", p0 |-> a, p1 |-> b, canvas |-> c] : a \in LinePoints, b \in LinePoints, c \in Canvases}
    /\ ret = Pending

ApplyLine ==
    /\ call.op = "line"
    /\ ~ret.done
    /\ LET r == lineRun(call.p0, call.p1, call.canvas)
       IN  ret' = [done |-> TRUE, canvas |-> r.canvas, halted |-> r.halted]
    /\ UNCHANGED <<fields, call, trans, panicked, pre>>

SpecLine == InitLine /\ [][ApplyLine]_vars

FilterCoords == 0..MaxFilterCoord
FilterPoints == {Pt(px, py) : px \in FilterCoords, py \in FilterCoords}
Strokes == UNION {[1..n -> FilterPoints] : n \in 0..MaxFilterLen}

InitFilter ==
    /\ Idle
    /\ call \in {[op |-> "filter", stroke |-> s] : s \in Strokes}
    /\ ret = Pending

ApplyFilter ==
    /\ call.op = "filter"
    /\ ~ret.done
    /\ ret' = [done |-> TRUE, out |-> filter(call.stroke)]
    /\ UNCHANGED <<fields, call, trans, panicked, pre>>

SpecFilter == InitFilter /\ [][ApplyFilter]_vars

----------------------------------------------------------------------------
\* Properties of the stroke lifecycle (Spec)

\* the state changes of the last call, as pairs
Steps == {<<trans[i], trans[i + 1]>> : i \in 1..(Len(trans) - 1)}
Ordered ==
    {<<"NotDrawing", "DrawStarted">>, <<"DrawStarted", "Drawing">>, <<"Drawing", "DrawEnded">>,
     <<"DrawStarted", "DrawEnded">>, <<"DrawEnded", "NotDrawing">>}

\* C1: every change of state a call makes follows NotDrawing -> DrawStarted ->
\* Drawing -> DrawEnded -> NotDrawing; no call makes any other transition.
C1_StrictOrder == Steps \subseteq Ordered

\* C2: draw or stop_drawing called in NotDrawing or DrawEnded panics; it does
\* not return.
C2_InvalidCallPanics ==
    (call.op \in {"draw", "stop_drawing"} /\ trans[1] \in {"NotDrawing", "DrawEnded"}) => panicked
C2_Witness == call.op = "draw" /\ trans[1] = "DrawEnded" /\ panicked

\* C3: after any sequence of completed calls, the stroke is empty whenever
\* the state is NotDrawing.
C3_StrokeEmptyWhenNotDrawing == (~panicked /\ state = NotDrawing) => stroke = <<>>
C3_Witness == call.op = "update" /\ trans = <<"DrawEnded", "NotDrawing">> /\ stroke = <<>>

\* C4: start_drawing from NotDrawing completes in Drawing, every draw in
\* Drawing completes in Drawing, stop_drawing then gives DrawEnded and update
\* then gives NotDrawing with an empty stroke: the sequence start_drawing,
\* draw..., stop_drawing, update ends in NotDrawing with an empty stroke,
\* whatever the points and the active modes.
C4_Step ==
    /\ (state = NotDrawing /\ call'.op = "start_drawing") => (state'.tag = "Drawing" /\ ~panicked')
    /\ (state.tag = "Drawing" /\ call'.op = "draw") => (state'.tag = "Drawing" /\ ~panicked')
    /\ (state.tag = "Drawing" /\ call'.op = "stop_drawing") => (state'.tag = "DrawEnded" /\ ~panicked')
    /\ (state.tag = "DrawEnded" /\ call'.op = "update") => (state' = NotDrawing /\ stroke' = <<>> /\ ~panicked')
C4_StrokeSequenceEnds == [][C4_Step]_vars
C4_Witness ==
    /\ call.op = "update" /\ trans[1] = "DrawEnded" /\ state = NotDrawing /\ stroke = <<>>
    /\ curr # prev /\ Perfect \in modes /\ Line(90) \in modes

----------------------------------------------------------------------------
\* Properties of the mode set (SpecModes)

LinesOf(ms) == {m \in ms : m.kind = "Line"}

\* C5: the mode set holds at most one Line variant, and after set(Line(b)) the
\* only Line variant in it is Line(b).
C5_OneLine ==
    /\ Cardinality(LinesOf(modes)) <= 1
    /\ (call.op = "set" /\ call.m.kind = "Line") => LinesOf(modes) = {call.m}
C5_Witness == call.op = "set" /\ call.m = Line(None) /\ Line(90) \in pre /\ LinesOf(modes) = {Line(None)}

\* C6: set(m) returns true exactly when m was not in the mode set before the
\* call.
C6_SetReturnsNew == call.op = "set" => (ret = (call.m \notin pre))

\* C7: unset(Line(x)) removes whichever Line variant is in the set, returns
\* true exactly when there was one, and leaves the other modes alone.
C7_UnsetLine ==
    (call.op = "unset" /\ call.m.kind = "Line") =>
        /\ modes = pre \ LinesOf(pre)
        /\ ret = (LinesOf(pre) # {})
C7_Witness ==
    /\ call.op = "unset" /\ call.m = Line(90) /\ Line(None) \in pre
    /\ ret = TRUE /\ modes = {Erase, XSym}

----------------------------------------------------------------------------
\* Properties of the line rasterizer (SpecLine)

Reverse(s) == [i \in 1..Len(s) |-> s[Len(s) + 1 - i]]
Near(p, q) == Abs(p.x - q.x) <= 1 /\ Abs(p.y - q.y) <= 1

LineDone == call.op = "line" /\ ret.done
\* the points the call appended to the canvas
Drawn == SubSeq(ret.canvas, Len(call.canvas) + 1, Len(ret.canvas))

\* C8: the output of line(a, b) starts at a, ends at b, and any two
\* consecutive points are distinct and at most 1 apart in each axis; for
\* a = b it is exactly <<a>>.
C8_LineConnected ==
    LineDone =>
        /\ ret.halted
        /\ Drawn # <<>>
        /\ Drawn[1] = call.p0
        /\ Drawn[Len(Drawn)] = call.p1
        /\ \A i \in 1..(Len(Drawn) - 1) : Drawn[i] # Drawn[i + 1] /\ Near(Drawn[i], Drawn[i + 1])
        /\ (call.p0 = call.p1 => Drawn = <<call.p0>>)
C8_Witness ==
    /\ LineDone /\ call.p0 = Pt(2, 1) /\ call.p1 = Pt(-2, -1)
    /\ Drawn = <<Pt(2, 1), Pt(1, 1), Pt(0, 0), Pt(-1, 0), Pt(-2, -1)>>

\* C9: line(b, a) is exactly the reverse of line(a, b).
C9_SwapReverses == LineDone => line(call.p1, call.p0, <<>>) = Reverse(Drawn)

AxisOrDiagonal(a, b) == a.x = b.x \/ a.y = b.y \/ Abs(a.x - b.x) = Abs(a.y - b.y)

\* C9 as amended: line(b, a) has as many points as line(a, b), each within one
\* pixel (in each axis) of the point at the same place of the reverse of
\* line(a, b); it is exactly the reverse when the segment is horizontal,
\* vertical or exactly diagonal.
C9_SwapNearReverse ==
    LineDone =>
        LET back == line(call.p1, call.p0, <<>>)
            rev == Reverse(Drawn)
        IN  /\ Len(back) = Len(rev)
            /\ \A i \in 1..Len(rev) : Near(back[i], rev[i])
            /\ AxisOrDiagonal(call.p0, call.p1) => back = rev
C9_Witness ==
    /\ LineDone /\ call.p0 = Pt(0, 0) /\ call.p1 = Pt(2, 1)
    /\ Drawn = <<Pt(0, 0), Pt(1, 0), Pt(2, 1)>>
    /\ line(call.p1, call.p0, <<>>) = <<Pt(2, 1), Pt(1, 1), Pt(0, 0)>>

----------------------------------------------------------------------------
\* Properties of the corner filter (SpecFilter)

FilterDone == call.op = "filter" /\ ret.done

\* C10: for a non-empty input, the output of the corner filter starts with
\* the first point of the input and ends with the last one.
C10_FilterKeepsEnds ==
    (FilterDone /\ call.stroke # <<>>) =>
        /\ ret.out # <<>>
        /\ ret.out[1] = call.stroke[1]
        /\ ret.out[Len(ret.out)] = call.stroke[Len(call.stroke)]
C10_Witness ==
    /\ FilterDone /\ call.stroke = <<Pt(0, 0), Pt(1, 0), Pt(1, 1), Pt(0, 1)>>
    /\ ret.out = <<Pt(0, 0), Pt(1, 1), Pt(0, 1)>>

\* C11: on an input no consecutive triple of which is a right-angle step, the
\* corner filter gives back the input, no point added or removed, and
\* filtering the result again changes nothing.
NoCorner(s) == \A i \in 1..(Len(s) - 2) : ~isCorner(s[i], s[i + 1], s[i + 2])
C11_NoCornerIdentity ==
    (FilterDone /\ NoCorner(call.stroke)) =>
        /\ ret.out = call.stroke
        /\ filter(ret.out) = ret.out

----------------------------------------------------------------------------
\* Brush::expand: a point expanded into all brush heads

\* frames in the view strip are at most MaxFrameW wide and MaxFrameH high, and
\* there are at most MaxFrames of them
MaxFrameW == 10
MaxFrameH == 6
MaxFrames == 2

\* i32 division: truncates toward zero
Div(a, b) == IF a >= 0 THEN a \div b ELSE -((-a) \div b)

\* the concatenation of ss[1], ..., ss[Len(ss)]
Flatten(ss) ==
    LET F[i \in 0..Len(ss)] == IF i = 0 THEN <<>> ELSE F[i - 1] \o ss[i]
    IN  F[Len(ss)]

\* the mirror without the - 1
xmirror_off(p, fw) ==
    LET frame_index == Div(p.x, fw)
    IN  Pt((frame_index + 1) * fw - (p.x - frame_index * fw), p.y)

\* the point pushed for p under XSym
xmirror(p, fw) ==
    LET frame_index == Div(p.x, fw)
    IN  Pt((frame_index + 1) * fw - (p.x - frame_index * fw) - 1, p.y)

\* the point pushed for p under YSym
ymirror(p, fh) == Pt(p.x, fh - p.y - 1)

\* the copies with an inclusive range, 0..=nframes - frame_index
multiCopies_incl(p, fw, nframes) ==
    LET frame_index == Div(p.x, fw)
    IN  [k \in 1..(nframes - frame_index + 1) |-> Pt(p.x + (k - 1) * fw, p.y)]

\* the points pushed for p under Multi: i in 0..nframes - frame_index
multiCopies(p, fw, nframes) ==
    LET frame_index == Div(p.x, fw)
    IN  [k \in 1..(nframes - frame_index) |-> Pt(p.x + (k - 1) * fw, p.y)]

expand(self, p, extent) ==
    LET fw == extent.fw
        fh == extent.fh
        nframes == extent.nframes
        X(q) == <<xmirror(q, fw)>>
        Y(q) == <<ymirror(q, fh)>>
        M(q) == multiCopies(q, fw, nframes)
        pixels0 == <<p>>
        pixels1 == IF is_set(self, XSym) THEN pixels0 \o Flatten([i \in DOMAIN pixels0 |-> X(pixels0[i])]) ELSE pixels0
        pixels2 == IF is_set(self, YSym) THEN pixels1 \o Flatten([i \in DOMAIN pixels1 |-> Y(pixels1[i])]) ELSE pixels1
        pixels3 == IF is_set(self, Multi) THEN pixels2 \o Flatten([i \in DOMAIN pixels2 |-> M(pixels2[i])]) ELSE pixels2
    IN  pixels3

\* expand on its own: a brush with some expansion modes set, a view extent and
\* a point inside it
ExpandModes == {XSym, YSym, Multi}
ExpandExtents == {Extent(w, h, n) : w \in 1..MaxFrameW, h \in 1..MaxFrameH, n \in 1..MaxFrames}
Inside(e) == {Pt(px, py) : px \in 0..(e.fw * e.nframes - 1), py \in 0..(e.fh - 1)}

InitExpand ==
    /\ size = 1
    /\ state = NotDrawing
    /\ stroke = <<>>
    /\ color = "TRANSPARENT"
    /\ modes \in SUBSET ExpandModes
    /\ curr = Pt(0, 0)
    /\ prev = Pt(0, 0)
    /\ trans = <<"NotDrawing">>
    /\ panicked = FALSE
    /\ pre = {}
    /\ call \in {[op |-> "expand", p |-> p, extent |-> e] : e \in ExpandExtents, p \in UNION {Inside(x) : x \in ExpandExtents}}
    /\ call.p \in Inside(call.extent)
    /\ ret = Pending

ApplyExpand ==
    /\ call.op = "expand"
    /\ ~ret.done
    /\ ret' = [done |-> TRUE, out |-> expand(Self, call.p, call.extent)]
    /\ UNCHANGED <<fields, call, trans, panicked, pre>>

SpecExpand == InitExpand /\ [][ApplyExpand]_vars

----------------------------------------------------------------------------
\* Properties of expand (SpecExpand)

ExpandDone == call.op = "expand" /\ ret.done
Range(s) == {s[i] : i \in 1..Len(s)}

\* C12: with XSym the only expansion mode, expand(p, extent) gives p and its
\* mirror x' = (f + 1) * fw - (x - f * fw) - 1, y' = y, f = x / fw; the mirror
\* is in the frame of p and its own mirror is p.
C12_XSymMirror ==
    (ExpandDone /\ modes = {XSym}) =>
        LET fw == call.extent.fw
            f == call.p.x \div fw
            m == Pt((f + 1) * fw - (call.p.x - f * fw) - 1, call.p.y)
            fm == m.x \div fw
        IN  /\ ret.out = <<call.p, m>>
            /\ fm = f
            /\ Pt((fm + 1) * fw - (m.x - fm * fw) - 1, m.y) = call.p
C12_Witness ==
    /\ ExpandDone /\ modes = {XSym} /\ call.extent.fw = 10 /\ call.extent.nframes = 2
    /\ call.p = Pt(2, 5) /\ ret.out = <<Pt(2, 5), Pt(7, 5)>>

\* C13: with Multi the only expansion mode, the points expand(p, extent) gives
\* for p in frame k are p and p shifted by j * fw for every later frame
\* k + j <= nframes - 1, and no other point.
C13_MultiFrames ==
    (ExpandDone /\ modes = {Multi}) =>
        LET fw == call.extent.fw
            k == call.p.x \div fw
        IN  Range(ret.out) = {Pt(call.p.x + j * fw, call.p.y) : j \in 0..(call.extent.nframes - 1 - k)}
C13_Witness ==
    /\ ExpandDone /\ modes = {Multi} /\ call.extent.fw = 10 /\ call.extent.nframes = 2
    /\ call.p = Pt(2, 5) /\ Range(ret.out) = {Pt(2, 5), Pt(12, 5)}

----------------------------------------------------------------------------
\* Brush::paint: a circle painted into a pixel buffer. position and diameter
\* are f32; the model takes them in half pixels (position2, diameter2) and
\* computes lengths in quarter pixels, which is exact for these values.

\* buffers of the general check are up to MaxPaintSize pixels wide and high
MaxPaintSize == 3
\* ... and its diameters go up to MaxPaintDiameter2 half pixels
MaxPaintDiameter2 == 8

\* Rgba8::TRANSPARENT and Rgba8::WHITE, named as in test_paint
z == "TRANSPARENT"
w == "WHITE"

\* the bias taken for every diameter above 1 up to 3
paintBias4_from1(diameter2) == IF diameter2 > 2 /\ diameter2 <= 6 THEN 2 ELSE 0

\* bias, in quarter pixels
paintBias4(diameter2) ==
    IF diameter2 <= 4 THEN 0
    ELSE IF diameter2 <= 6 THEN 2
    ELSE 0

\* radius = diameter / 2. - bias, in quarter pixels
paintRadius4(diameter2) == diameter2 - paintBias4(diameter2)

\* the coordinates grid.iter_mut() gives with the i-th pixel of the buffer
pixelXY(i, width) == Pt((i - 1) % width, (i - 1) \div width)

\* the test d < radius
paintHit_strict(p, position2, radius4) ==
    LET dx == Abs(4 * p.x - 2 * position2.x)
        dy == Abs(4 * p.y - 2 * position2.y)
    IN  radius4 > 0 /\ dx * dx + dy * dy < radius4 * radius4

\* d <= radius, for d = sqrt(dx^2 + dy^2)
paintHit(p, position2, radius4) ==
    LET dx == Abs(4 * p.x - 2 * position2.x)
        dy == Abs(4 * p.y - 2 * position2.y)
    IN  radius4 >= 0 /\ dx * dx + dy * dy <= radius4 * radius4

paint(pixels, width, height, position2, diameter2, c) ==
    LET radius4 == paintRadius4(diameter2)
    IN  [i \in 1..Len(pixels) |->
            IF paintHit(pixelXY(i, width), position2, radius4) THEN c ELSE pixels[i]]

\* the reference bitmaps of test_paint
brush1 ==
    <<
       z, z, z,
       z, w, z,
       z, z, z
    >>

brush2 ==
    <<
       z, z, z, z,
       z, w, w, z,
       z, w, w, z,
       z, z, z, z
    >>

brush3 ==
    <<
       z, z, z, z, z,
       z, z, w, z, z,
       z, w, w, w, z,
       z, z, w, z, z,
       z, z, z, z, z
    >>

brush5 ==
    <<
       z, z, z, z, z, z, z,
       z, z, w, w, w, z, z,
       z, w, w, w, w, w, z,
       z, w, w, w, w, w, z,
       z, w, w, w, w, w, z,
       z, z, w, w, w, z, z,
       z, z, z, z, z, z, z
    >>

brush7 ==
    <<
       z, z, z, z, z, z, z, z, z,
       z, z, z, w, w, w, z, z, z,
       z, z, w, w, w, w, w, z, z,
       z, w, w, w, w, w, w, w, z,
       z, w, w, w, w, w, w, w, z,
       z, w, w, w, w, w, w, w, z,
       z, z, w, w, w, w, w, z, z,
       z, z, z, w, w, w, z, z, z,
       z, z, z, z, z, z, z, z, z
    >>

brush15 ==
    <<
       z, z, z, z, z, w, w, w, w, w, z, z, z, z, z,
       z, z, z, w, w, w, w, w, w, w, w, w, z, z, z,
       z, z, w, w, w, w, w, w, w, w, w, w, w, z, z,
       z, w, w, w, w, w, w, w, w, w, w, w, w, w, z,
       z, w, w, w, w, w, w, w, w, w, w, w, w, w, z,
       w, w, w, w, w, w, w, w, w, w, w, w, w, w, w,
       w, w, w, w, w, w, w, w, w, w, w, w, w, w, w,
       w, w, w, w, w, w, w, w, w, w, w, w, w, w, w,
       w, w, w, w, w, w, w, w, w, w, w, w, w, w, w,
       w, w, w, w, w, w, w, w, w, w, w, w, w, w, w,
       z, w, w, w, w, w, w, w, w, w, w, w, w, w, z,
       z, w, w, w, w, w, w, w, w, w, w, w, w, w, z,
       z, z, w, w, w, w, w, w, w, w, w, w, w, z, z,
       z, z, z, w, w, w, w, w, w, w, w, w, z, z, z,
       z, z, z, z, z, w, w, w, w, w, z, z, z, z, z
    >>

Blank(width, height, c) == [i \in 1..(width * height) |-> c]
PaintCall(pixels, width, height, position2, diameter2, c) ==
    [op |-> "paint", pixels |-> pixels, w |-> width, h |-> height,
     position2 |-> position2, diameter2 |-> diameter2, color |-> c]

\* the calls of test_paint, each with the bitmap it expects
TestPaint ==
    <<[call |-> PaintCall(Blank(3, 3, z), 3, 3, Pt(2, 2), 2, w), expect |-> brush1],
      [call |-> PaintCall(Blank(4, 4, z), 4, 4, Pt(3, 3), 4, w), expect |-> brush2],
      [call |-> PaintCall(Blank(5, 5, z), 5, 5, Pt(4, 4), 6, w), expect |-> brush3],
      [call |-> PaintCall(Blank(7, 7, z), 7, 7, Pt(6, 6), 10, w), expect |-> brush5],
      [call |-> PaintCall(Blank(9, 9, z), 9, 9, Pt(8, 8), 14, w), expect |-> brush7],
      [call |-> PaintCall(Blank(15, 15, z), 15, 15, Pt(14, 14), 30, w), expect |-> brush15]>>

\* calls on small buffers, blank or already painted, with every center on
\* the half-pixel grid of the buffer and every diameter in half pixels
SmallPaint ==
    {PaintCall(Blank(width, height, c0), width, height, Pt(cx, cy), d2, w) :
        width \in 1..MaxPaintSize, height \in 1..MaxPaintSize, c0 \in {z, "RED"},
        cx \in 0..(2 * MaxPaintSize - 2), cy \in 0..(2 * MaxPaintSize - 2), d2 \in 0..MaxPaintDiameter2}

InitPaint ==
    /\ Idle
    /\ call \in {TestPaint[i].call : i \in 1..Len(TestPaint)} \cup SmallPaint
    /\ call.position2.x <= 2 * call.w - 2
    /\ call.position2.y <= 2 * call.h - 2
    /\ ret = Pending

ApplyPaint ==
    /\ call.op = "paint"
    /\ ~ret.done
    /\ ret' = [done |-> TRUE,
               pixels |-> paint(call.pixels, call.w, call.h, call.position2, call.diameter2, call.color),
               radius4 |-> paintRadius4(call.diameter2)]
    /\ UNCHANGED <<fields, call, trans, panicked, pre>>

SpecPaint == InitPaint /\ [][ApplyPaint]_vars

----------------------------------------------------------------------------
\* Properties of paint (SpecPaint)

PaintDone == call.op = "paint" /\ ret.done

\* C14: paint sets to the color the pixels whose distance to the center is at
\* most the radius and leaves the others as they were; on the calls of
\* test_paint the buffer it leaves is the reference bitmap.
C14_PaintCircle ==
    PaintDone =>
        /\ Len(ret.pixels) = call.w * call.h
        /\ \A x \in 0..(call.w - 1), y \in 0..(call.h - 1) :
              LET i == y * call.w + x + 1
                  dx == 4 * x - 2 * call.position2.x
                  dy == 4 * y - 2 * call.position2.y
              IN  ret.pixels[i] = IF dx * dx + dy * dy <= ret.radius4 * ret.radius4
                                  THEN call.color ELSE call.pixels[i]
        /\ \A k \in 1..Len(TestPaint) : call = TestPaint[k].call => ret.pixels = TestPaint[k].expect
C14_Witness == PaintDone /\ call = TestPaint[3].call /\ ret.pixels = brush3

\* C18: radius = diameter / 2 - bias with bias = 0.5 exactly when
\* 1 < diameter <= 3, and 0 otherwise.
C18_BiasFromOne ==
    PaintDone =>
        ret.radius4 = call.diameter2 - (IF call.diameter2 > 2 /\ call.diameter2 <= 6 THEN 2 ELSE 0)

\* C18 as amended: bias = 0.5 exactly when 2 < diameter <= 3, and 0 otherwise.
C18_BiasFromTwo ==
    PaintDone =>
        ret.radius4 = call.diameter2 - (IF call.diameter2 > 4 /\ call.diameter2 <= 6 THEN 2 ELSE 0)
C18_Witness ==
    /\ PaintDone /\ call = TestPaint[2].call /\ call.diameter2 = 4
    /\ ret.radius4 = 4 /\ ret.pixels = brush2

----------------------------------------------------------------------------
\* Further properties of the stroke lifecycle (Spec)

FieldsOf(self) == <<self.size, self.state, self.stroke, self.color, self.modes, self.curr, self.prev>>

\* C15: update in DrawEnded gives NotDrawing and an empty stroke; in any other
\* state it changes no field of the brush; and a second update right after
\* it changes nothing.
C15_Step ==
    call'.op = "update" =>
        /\ ~panicked'
        /\ IF state.tag = "DrawEnded"
           THEN state' = NotDrawing /\ stroke' = <<>> /\ UNCHANGED <<size, color, modes, curr, prev>>
           ELSE UNCHANGED fields
        /\ FieldsOf(update(Self))' = fields'
C15_UpdateTick == [][C15_Step]_vars
C15_Witness == call.op = "update" /\ trans = <<"Drawing">> /\ stroke # <<>> /\ color = w

NoLine == LinesOf(modes) = {}
NoSnap == \A m \in modes : m.snap = None

C16_Step ==
    (call'.op = "draw" /\ state.tag = "Drawing" /\ NoLine /\ Perfect \notin modes) =>
        /\ ~panicked'
        /\ prev' = curr
        /\ curr' = call'.p
        /\ stroke' = dedup(stroke \o line(curr, call'.p, <<>>))
C17_StartSinglePoint ==
    (call.op = "start_drawing" /\ trans[1] = "NotDrawing" /\ NoSnap) => stroke = <<call.p>>

\* C19: while no snap-angle mode is active, start_drawing(p0, ..) leaves a
\* stroke that starts and ends at p0, and every draw(p) in Drawing leaves a
\* non-empty stroke with the first point it had before and p as its last.
C19_Step ==
    (call'.op \in {"start_drawing", "draw"} /\ ~panicked' /\ NoSnap) =>
        /\ stroke' # <<>>
        /\ stroke'[Len(stroke')] = call'.p
        /\ call'.op = "start_drawing" => stroke'[1] = call'.p
        /\ call'.op = "draw" => (stroke # <<>> /\ stroke'[1] = stroke[1])
C19_StrokeEnds == [][C19_Step]_vars
C19_Witness ==
    /\ call.op = "draw" /\ ~panicked /\ modes = {Perfect}
    /\ stroke = <<Pt(0, 0), Pt(1, 1), Pt(1, 1)>> /\ call.p = Pt(1, 1)

----------------------------------------------------------------------------
\* Further properties of the line rasterizer (SpecLine)

Max(a, b) == IF a >= b THEN a ELSE b

\* C20: for every pair of endpoints the loop of line ends, having appended
\* max(|b.x - a.x|, |b.y - a.y|) + 1 points to the canvas and left the points
\* the canvas held as they were.
C20_LineLength ==
    LineDone =>
        /\ ret.halted
        /\ Len(ret.canvas) = Len(call.canvas) + Max(Abs(call.p1.x - call.p0.x), Abs(call.p1.y - call.p0.y)) + 1
        /\ SubSeq(ret.canvas, 1, Len(call.canvas)) = call.canvas
C20_Witness ==
    /\ LineDone /\ call.canvas = <<Pt(0, 0), Pt(1, 1)>>
    /\ call.p0 = Pt(-2, 1) /\ call.p1 = Pt(2, -1) /\ Len(ret.canvas) = 7

====
